---- MODULE Spec2Model ----
(***************************************************************************)
(* Task service (GraphQL): the in-memory task and notification store, the  *)
(* Query/Mutation/Subscription resolvers acting on it and the PubSub they  *)
(* publish on.                                                             *)
(***************************************************************************)
EXTENDS Integers, Sequences, FiniteSets, TLC

(* ------------------------------ bounds -------------------------------- *)

\* Number of requests served in one behaviour.
MaxSteps == 2

\* The hours the wall clock of the user service runs through.
MaxHours == 26

\* Number of tokens issued in one behaviour.
MaxTokens == 1

\* Number of users stored or being registered in one behaviour.
MaxUsers == 4

\* Number of member operations served in one behaviour.
MaxTeamClock == 3

\* Number of dashboard events handled in one behaviour.
MaxPageClock == 6

(* --------------------------- JavaScript values ------------------------ *)

\* A property that is missing from an object reads as undefined.
Undefined == "<undefined>"
Null == "<null>"
\* The outcome of an expression that throws.
Throws == "<throws>"

\* JavaScript truthiness of undefined, null and strings.
Truthy(v) == v \notin {Undefined, Null, ""}

\* obj.f
Get(obj, f) == IF f \in DOMAIN obj THEN obj[f] ELSE Undefined

\* { ...a, ...b }
Spread(a, b) ==
  [f \in (DOMAIN a) \cup (DOMAIN b) |-> IF f \in DOMAIN b THEN b[f] ELSE a[f]]

\* The object with no property.
EmptyObject == [f \in {} |-> Undefined]

\* Mutant: a miss is not told apart from the last index (splice(-1, 1)).
FindIndexOrLast(arr, id) ==
  IF \E i \in 1..Len(arr) : arr[i]["id"] = id
  THEN CHOOSE i \in 1..Len(arr) :
         /\ arr[i]["id"] = id
         /\ \A j \in 1..(i - 1) : arr[j]["id"] # id
  ELSE Len(arr)

\* array.findIndex(x => x.id === id), 1-based; 0 stands for -1.
FindIndex(arr, id) ==
  IF \E i \in 1..Len(arr) : arr[i]["id"] = id
  THEN CHOOSE i \in 1..Len(arr) :
         /\ arr[i]["id"] = id
         /\ \A j \in 1..(i - 1) : arr[j]["id"] # id
  ELSE 0

\* array.splice(index, 1)
Splice(arr, index) ==
  SubSeq(arr, 1, index - 1) \o SubSeq(arr, index + 1, Len(arr))

\* `${v}`
Str(v) ==
  IF v = Null THEN "null" ELSE IF v = Undefined THEN "undefined" ELSE v

(* ------------------------------ schema -------------------------------- *)

TaskStatus == {"TODO", "IN_PROGRESS", "REVIEW", "COMPLETED", "CANCELLED"}
TaskPriority == {"LOW", "MEDIUM", "HIGH", "URGENT"}

\* The fields UpdateTaskInput declares.
UpdateTaskInputFields ==
  {"title", "description", "status", "priority", "assignedTo", "dueDate"}

(* --------------------------- request inputs --------------------------- *)

\* An optional input field: left out, or carried with one of vals.
Optional(f, vals) == {EmptyObject} \cup {[g \in {f} |-> v] : v \in vals}

\* CreateTaskInput values: title, priority and teamId are required and
\* non-null, assignedTo is a nullable ID (any string, the empty one included).
CreateTaskInputs ==
  { Spread([title |-> "Write spec", priority |-> "HIGH", teamId |-> tm], a) :
      tm \in {"1", "2"},
      a \in Optional("assignedTo", {Null, "", "1", "2"}) }

\* UpdateTaskInput values: every field is optional and nullable.
UpdateTaskInputs ==
  { Spread(s, a) :
      s \in Optional("status", {Null, "IN_PROGRESS"}),
      a \in Optional("assignedTo", {Null, "3"}) }
  \cup
  { Spread(s, [title |-> "Renamed"]) :
      s \in Optional("status", {"IN_PROGRESS"}) }

\* The value of the request's user header: none, a JSON object with an id,
\* text that is not JSON.
UserHeaders == {Undefined, "{\"id\":\"2\"}", "not json"}

\* JSON.parse(header).id
JsonParseId(header) ==
  CASE header = "{\"id\":\"1\"}" -> "1"
    [] header = "{\"id\":\"2\"}" -> "2"
    [] header = "{}" -> Undefined
    [] OTHER -> Throws

\* The arguments (teamId, assignedTo, status) of a tasks query: each filter
\* is optional; an ID may be the empty string.
TasksQueryArguments ==
  {<<Undefined, Undefined, Undefined>>, <<"1", Undefined, Undefined>>,
   <<"2", "2", Undefined>>, <<Undefined, "", Undefined>>,
   <<Undefined, Null, "IN_PROGRESS">>, <<"1", "2", "IN_PROGRESS">>}

\* The userId argument of a notifications query.
NotificationsQueryArguments == {"1", "2"}

\* The user header a subscription operation arrives with.
SubscriptionHeaders == {Undefined, "{\"id\":\"2\"}"}

\* The connections a client may open.
Connections == {"c1"}

\* The subscription fields and the argument each is called with.
SubscriptionRequests ==
  {<<"taskCreated", "1">>, <<"taskUpdated", "1">>, <<"taskDeleted", "1">>,
   <<"notificationAdded", "2">>}

(* ------------------------------- state -------------------------------- *)

VARIABLES
  tasks,          \* let tasks = [...]
  notifications,  \* let notifications = [...]
  published,      \* the pubsub.publish calls made so far, in order
  subscriptions,  \* the subscription operations clients have sent
  uuids,          \* number of uuidv4() calls made so far
  clock,          \* the wall clock
  last,           \* the request served last and its outcome
  before,         \* the collections as the request served last found them
  steps,          \* number of requests served
  users,          \* let users = [...] of the user service
  tokens,         \* the tokens login has issued, each with whether
                  \* verification has accepted it
  hours,          \* the wall clock of the user service and gateway, in hours
  authLast,       \* the login or verification served last and its outcome
  publishThrows,  \* whether pubsub.publish throws when it is called
  registering,    \* the register requests awaiting their password hash
  teams,          \* let teams = [...] of routes/teams.js
  storeTeams,     \* const teams = [...] of data/teamsStore.js
  teamClock,      \* the wall clock of the team routes and store
  teamLast,       \* the member operation served last and its outcome
  displayed,      \* the dashboard's notifications state
  pageClock,      \* the browser's wall clock
  pageLast        \* the dashboard event handled last

taskVars ==
  <<tasks, notifications, published, subscriptions, uuids, clock, last,
    before, steps, publishThrows>>

authVars == <<users, tokens, hours, authLast, registering>>

teamVars == <<teams, storeTeams, teamClock, teamLast>>

pageVars == <<displayed, pageClock, pageLast>>

vars == <<taskVars, authVars, teamVars, pageVars>>

\* Mutant: ids are numbered like the seeded ones.
UuidSequential(k) == ToString(k)

\* The k-th value uuidv4() returns: a fresh identifier.
Uuid(k) == "uuid-" \o ToString(k)

\* The ids a request may name: a seeded one, a stored one, an unknown one.
IdArguments ==
  {"1", "2", "404"} \cup {tasks[i]["id"] : i \in 1..Len(tasks)}

\* The notification ids a request may name.
NotificationIdArguments ==
  {"1", "404"} \cup {notifications[i]["id"] : i \in 1..Len(notifications)}

\* new Date(): the requests are served at successive instants, and the
\* reads of one handler return the same instant.
Now == clock + 1

\* The collections as a request finds them.
Snapshot ==
  [tasks |-> tasks, notifications |-> notifications,
   published |-> Len(published)]

(* ----------------------------- seed data ------------------------------ *)

SeedTasks ==
  << [id |-> "1", title |-> "Setup Project Infrastructure",
      description |-> "Initialize microservices architecture with Docker",
      status |-> "COMPLETED", priority |-> "HIGH", assignedTo |-> "1",
      teamId |-> "1", createdBy |-> "1", createdAt |-> 0, updatedAt |-> 0,
      dueDate |-> "now+7d"],
     [id |-> "2", title |-> "Implement JWT Authentication",
      description |-> "Add JWT-based authentication with RSA keys",
      status |-> "IN_PROGRESS", priority |-> "HIGH", assignedTo |-> "2",
      teamId |-> "1", createdBy |-> "1", createdAt |-> 0, updatedAt |-> 0,
      dueDate |-> "now+5d"] >>

SeedNotifications ==
  << [id |-> "1", userId |-> "2",
      message |-> "You have been assigned to task: Implement JWT Authentication",
      type |-> "TASK_ASSIGNED", read |-> FALSE, createdAt |-> 0,
      taskId |-> "2"] >>

(* ------------------------------- PubSub ------------------------------- *)

\* server.installSubscriptionHandlers(httpServer) is commented out: no
\* transport ever calls a Subscription resolver's subscribe function.
SubscriptionHandlersInstalled == FALSE

\* Mutant: one topic for every team.
TaskCreatedTopicShared(teamId) == "TASK_CREATED"

TaskCreatedTopic(teamId) == "TASK_CREATED_" \o teamId
TaskUpdatedTopic(teamId) == "TASK_UPDATED_" \o teamId
TaskDeletedTopic(teamId) == "TASK_DELETED_" \o teamId
NotificationAddedTopic(userId) == "NOTIFICATION_ADDED_" \o userId

\* The topic a Subscription resolver's subscribe function listens on.
SubscriptionTopic(field, arg) ==
  CASE field = "taskCreated" -> TaskCreatedTopic(arg)
    [] field = "taskUpdated" -> TaskUpdatedTopic(arg)
    [] field = "taskDeleted" -> TaskDeletedTopic(arg)
    [] field = "notificationAdded" -> NotificationAddedTopic(arg)

\* What one listener has received once events were published in order.
Deliver(sub, events) ==
  IF sub.registered
  THEN [sub EXCEPT !.received =
          @ \o SelectSeq(events, LAMBDA e : e.topic = sub.topic)]
  ELSE sub

\* The first pubsub.publish call of a mutation throws: the resolvers call
\* publish outside any try block, so the exception leaves the resolver.
PublishThrew(events) == publishThrows /\ events # << >>

\* pubsub.publish(topic, payload), once per event, in order, up to the call
\* that throws.
Publish(events) ==
  IF PublishThrew(events)
  THEN /\ published' = Append(published, events[1])
       /\ UNCHANGED subscriptions
  ELSE /\ published' = published \o events
       /\ subscriptions' =
            [i \in 1..Len(subscriptions) |->
               Deliver(subscriptions[i], events)]

\* Mutant: a mutation whose events nobody listens to answers an error.
ReturnedIfHeard(events, value) ==
  IF \E i \in 1..Len(subscriptions), k \in 1..Len(events) :
       subscriptions[i].registered /\ subscriptions[i].topic = events[k].topic
  THEN [threw |-> FALSE, result |-> value]
  ELSE [threw |-> TRUE, result |-> "no listener"]

\* What a mutation answers after its publish calls: its return value, or
\* the error publish threw.
Returned(events, value) ==
  IF PublishThrew(events)
  THEN [threw |-> TRUE, result |-> "publish failed"]
  ELSE [threw |-> FALSE, result |-> value]

(* ---------------------------- Query.tasks ----------------------------- *)

\* array.filter(pred)
FilterBy(arr, f, v) == SelectSeq(arr, LAMBDA x : Get(x, f) = v)

\* Mutant: the status filter is dropped.
TasksResolverNoStatus(stored, teamId, assignedTo, status) ==
  LET byTeam == IF Truthy(teamId) THEN FilterBy(stored, "teamId", teamId)
                ELSE stored
  IN IF Truthy(assignedTo) THEN FilterBy(byTeam, "assignedTo", assignedTo)
     ELSE byTeam

\* The resolver, reading the array `stored`.
TasksResolver(stored, teamId, assignedTo, status) ==
  LET byTeam == IF Truthy(teamId) THEN FilterBy(stored, "teamId", teamId)
                ELSE stored
      byUser == IF Truthy(assignedTo)
                THEN FilterBy(byTeam, "assignedTo", assignedTo)
                ELSE byTeam
  IN IF Truthy(status) THEN FilterBy(byUser, "status", status) ELSE byUser

QueryTasks(teamId, assignedTo, status) ==
  TasksResolver(tasks, teamId, assignedTo, status)

\* A query changes nothing and answers `result`.
Answer(op, id, input, result) ==
  /\ steps < MaxSteps
  /\ steps' = steps + 1
  /\ before' = Snapshot
  /\ UNCHANGED <<publishThrows, authVars, teamVars, pageVars>>
  /\ last' = [op |-> op, id |-> id, input |-> input, user |-> Undefined,
              threw |-> FALSE, result |-> result]
  /\ UNCHANGED <<tasks, notifications, published, subscriptions, uuids,
                 clock>>

tasksQuery(teamId, assignedTo, status) ==
  Answer("tasks", Undefined,
         [teamId |-> teamId, assignedTo |-> assignedTo, status |-> status],
         QueryTasks(teamId, assignedTo, status))

(* ------------------------- Query.notifications ------------------------ *)

\* Mutant: the filter is skipped for a user without notifications.
NotificationsResolverOrAll(stored, userId) ==
  IF \E i \in 1..Len(stored) : stored[i].userId = userId
  THEN SelectSeq(stored, LAMBDA notif : notif.userId = userId)
  ELSE stored

\* notifications.filter(notif => notif.userId === userId)
NotificationsResolver(stored, userId) ==
  SelectSeq(stored, LAMBDA notif : notif.userId = userId)

notificationsQuery(userId) ==
  Answer("notifications", userId, EmptyObject,
         NotificationsResolver(notifications, userId))

(* ------------------------- Mutation.createTask ------------------------ *)

\* req && req.headers.user ? JSON.parse(req.headers.user).id : '1'
CreatedBy(header) == IF Truthy(header) THEN JsonParseId(header) ELSE "1"

NewTask(id, input, createdBy, createdAt, updatedAt) ==
  Spread(Spread([id |-> id], input),
         [status |-> "TODO", createdBy |-> createdBy,
          createdAt |-> createdAt, updatedAt |-> updatedAt])

\* Mutant: the creator is notified of their own task.
NotifiesAnyAssignee(input, createdBy) == Truthy(Get(input, "assignedTo"))

\* input.assignedTo && input.assignedTo !== createdBy
NotifiesAssignee(input, createdBy) ==
  /\ Truthy(Get(input, "assignedTo"))
  /\ Get(input, "assignedTo") # createdBy

AssignedNotification(id, input, newTask, createdAt) ==
  [id |-> id, userId |-> Get(input, "assignedTo"),
   message |-> "You have been assigned a new task: " \o Str(Get(input, "title")),
   type |-> "TASK_ASSIGNED", read |-> FALSE, createdAt |-> createdAt,
   taskId |-> newTask["id"]]

\* The events createTask publishes, in order.
CreateTaskEvents(input, newTask, notify, notification) ==
  (IF notify
   THEN << [topic |-> NotificationAddedTopic(Get(input, "assignedTo")),
            payload |-> [notificationAdded |-> notification]] >>
   ELSE << >>)
  \o << [topic |-> TaskCreatedTopic(Get(input, "teamId")),
         payload |-> [taskCreated |-> newTask]] >>

createTask(input, header) ==
  /\ steps < MaxSteps
  /\ steps' = steps + 1
  /\ before' = Snapshot
  /\ UNCHANGED <<publishThrows, authVars, teamVars, pageVars>>
  /\ LET createdBy == CreatedBy(header) IN
     IF createdBy = Throws
     THEN /\ last' = [op |-> "createTask", id |-> Undefined, input |-> input,
                      user |-> header, threw |-> TRUE,
                      result |-> "JSON.parse failed"]
          /\ UNCHANGED <<tasks, notifications, published, subscriptions,
                         uuids, clock>>
     ELSE LET newTask == NewTask(Uuid(uuids + 1), input, createdBy, Now, Now)
              notify == NotifiesAssignee(input, createdBy)
              notification ==
                AssignedNotification(Uuid(uuids + 2), input, newTask, Now)
          IN /\ tasks' = Append(tasks, newTask)
             /\ notifications' = IF notify
                                 THEN Append(notifications, notification)
                                 ELSE notifications
             /\ uuids' = IF notify THEN uuids + 2 ELSE uuids + 1
             /\ clock' = Now
             /\ Publish(CreateTaskEvents(input, newTask, notify, notification))
             /\ LET returned ==
                      Returned(CreateTaskEvents(input, newTask, notify,
                                                notification), newTask)
                IN last' = [op |-> "createTask", id |-> Undefined,
                            input |-> input, user |-> header,
                            threw |-> returned.threw,
                            result |-> returned.result]

(* ------------------------- Mutation.updateTask ------------------------ *)

\* Mutant: the update stamps createdAt as well.
UpdatedTaskRestamped(oldTask, input, updatedAt) ==
  [Spread(Spread(oldTask, input), [updatedAt |-> updatedAt])
     EXCEPT !["createdAt"] = updatedAt]

\* Mutant: the stored task is replaced by the patch.
UpdatedTaskPatchOnly(oldTask, input, updatedAt) ==
  Spread(Spread([id |-> oldTask["id"]], input), [updatedAt |-> updatedAt])

UpdatedTask(oldTask, input, updatedAt) ==
  Spread(Spread(oldTask, input), [updatedAt |-> updatedAt])

\* Mutant: the assignee tested is the one the task had.
NotifiesPriorAssignee(input, oldTask, updatedTask) ==
  /\ Truthy(Get(input, "status"))
  /\ Get(input, "status") # Get(oldTask, "status")
  /\ Truthy(Get(oldTask, "assignedTo"))

\* Mutant: the status is not compared with the prior one.
NotifiesAnyStatus(input, oldTask, updatedTask) ==
  /\ Truthy(Get(input, "status"))
  /\ Truthy(Get(updatedTask, "assignedTo"))

\* input.status && input.status !== oldTask.status && updatedTask.assignedTo
NotifiesStatusChange(input, oldTask, updatedTask) ==
  /\ Truthy(Get(input, "status"))
  /\ Get(input, "status") # Get(oldTask, "status")
  /\ Truthy(Get(updatedTask, "assignedTo"))

\* Mutant: the notification goes to the assignee the patch names.
StatusNotificationToPatchAssignee(id, input, updatedTask, createdAt) ==
  [id |-> id, userId |-> Get(input, "assignedTo"),
   message |-> "Task \"" \o Str(Get(updatedTask, "title"))
               \o "\" status changed to " \o Str(Get(input, "status")),
   type |-> "TASK_STATUS_CHANGED", read |-> FALSE, createdAt |-> createdAt,
   taskId |-> updatedTask["id"]]

StatusNotification(id, input, updatedTask, createdAt) ==
  [id |-> id, userId |-> Get(updatedTask, "assignedTo"),
   message |-> "Task \"" \o Str(Get(updatedTask, "title"))
               \o "\" status changed to " \o Str(Get(input, "status")),
   type |-> "TASK_STATUS_CHANGED", read |-> FALSE, createdAt |-> createdAt,
   taskId |-> updatedTask["id"]]

\* The events updateTask publishes, in order.
\* Mutant: the task event is published before the notification.
UpdateTaskEventsTaskFirst(updatedTask, notify, notification) ==
  << [topic |-> TaskUpdatedTopic(Get(updatedTask, "teamId")),
      payload |-> [taskUpdated |-> updatedTask]] >>
  \o (IF notify
      THEN << [topic |->
                 NotificationAddedTopic(Get(updatedTask, "assignedTo")),
               payload |-> [notificationAdded |-> notification]] >>
      ELSE << >>)

UpdateTaskEvents(updatedTask, notify, notification) ==
  (IF notify
   THEN << [topic |-> NotificationAddedTopic(Get(updatedTask, "assignedTo")),
            payload |-> [notificationAdded |-> notification]] >>
   ELSE << >>)
  \o << [topic |-> TaskUpdatedTopic(Get(updatedTask, "teamId")),
         payload |-> [taskUpdated |-> updatedTask]] >>

updateTask(id, input) ==
  /\ steps < MaxSteps
  /\ steps' = steps + 1
  /\ before' = Snapshot
  /\ UNCHANGED <<publishThrows, authVars, teamVars, pageVars>>
  /\ LET taskIndex == FindIndex(tasks, id) IN
     IF taskIndex = 0
     THEN /\ last' = [op |-> "updateTask", id |-> id, input |-> input,
                      user |-> Undefined, threw |-> TRUE,
                      result |-> "Task not found"]
          /\ UNCHANGED <<tasks, notifications, published, subscriptions,
                         uuids, clock>>
     ELSE LET oldTask == tasks[taskIndex]
              updatedTask == UpdatedTask(oldTask, input, Now)
              notify == NotifiesStatusChange(input, oldTask, updatedTask)
              notification ==
                StatusNotification(Uuid(uuids + 1), input, updatedTask, Now)
          IN /\ tasks' = [tasks EXCEPT ![taskIndex] = updatedTask]
             /\ notifications' = IF notify
                                 THEN Append(notifications, notification)
                                 ELSE notifications
             /\ uuids' = IF notify THEN uuids + 1 ELSE uuids
             /\ clock' = Now
             /\ Publish(UpdateTaskEvents(updatedTask, notify, notification))
             /\ LET returned ==
                      Returned(UpdateTaskEvents(updatedTask, notify,
                                                notification), updatedTask)
                IN last' = [op |-> "updateTask", id |-> id, input |-> input,
                            user |-> Undefined, threw |-> returned.threw,
                            result |-> returned.result]

(* ------------------------- Mutation.deleteTask ------------------------ *)

\* Mutant: the filter compares the notification's own id.
WithoutNotificationsById(arr, id) ==
  SelectSeq(arr, LAMBDA notif : Get(notif, "id") # id)

\* notifications.filter(notif => notif.taskId !== id)
WithoutNotificationsOf(arr, id) ==
  SelectSeq(arr, LAMBDA notif : Get(notif, "taskId") # id)

deleteTask(id) ==
  /\ steps < MaxSteps
  /\ steps' = steps + 1
  /\ before' = Snapshot
  /\ UNCHANGED <<publishThrows, authVars, teamVars, pageVars>>
  /\ LET taskIndex == FindIndex(tasks, id) IN
     IF taskIndex = 0
     THEN /\ last' = [op |-> "deleteTask", id |-> id, input |-> EmptyObject,
                      user |-> Undefined, threw |-> FALSE, result |-> FALSE]
          /\ UNCHANGED <<tasks, notifications, published, subscriptions,
                         uuids, clock>>
     ELSE LET task == tasks[taskIndex]
              events == << [topic |-> TaskDeletedTopic(Get(task, "teamId")),
                            payload |-> [taskDeleted |-> id]] >>
              returned == Returned(events, TRUE)
          IN
          /\ tasks' = Splice(tasks, taskIndex)
          /\ notifications' = WithoutNotificationsOf(notifications, id)
          /\ Publish(events)
          /\ last' = [op |-> "deleteTask", id |-> id, input |-> EmptyObject,
                      user |-> Undefined, threw |-> returned.threw,
                      result |-> returned.result]
          /\ UNCHANGED <<uuids, clock>>

(* -------------------- Mutation.markNotificationRead ------------------- *)

\* Mutant: the flag is toggled.
MarkedToggled(notification) == [notification EXCEPT !.read = ~@]

\* notification.read = true
Marked(notification) == [notification EXCEPT !.read = TRUE]

markNotificationRead(id) ==
  /\ steps < MaxSteps
  /\ steps' = steps + 1
  /\ before' = Snapshot
  /\ UNCHANGED <<publishThrows, authVars, teamVars, pageVars>>
  /\ LET index == FindIndex(notifications, id) IN
     IF index = 0
     THEN /\ last' = [op |-> "markNotificationRead", id |-> id,
                      input |-> EmptyObject, user |-> Undefined,
                      threw |-> FALSE, result |-> FALSE]
          /\ UNCHANGED notifications
     ELSE /\ notifications' =
               [notifications EXCEPT ![index] = Marked(notifications[index])]
          /\ last' = [op |-> "markNotificationRead", id |-> id,
                      input |-> EmptyObject, user |-> Undefined,
                      threw |-> FALSE, result |-> TRUE]
  /\ UNCHANGED <<tasks, published, subscriptions, uuids, clock>>

(* ---------------------------- Subscription ---------------------------- *)

\* The subscribe function of a Subscription field: (_, { teamId }) or
\* (_, { userId }); the context, and with it the caller's identity, is not
\* among its parameters.
SubscribeResolver(field, arg, header) == SubscriptionTopic(field, arg)

\* A client sends a subscription operation. The subscribe function of the
\* field runs, and its iterator listens on the topic, only when a
\* subscription transport is installed.
subscribe(conn, field, arg, header) ==
  /\ steps < MaxSteps
  /\ steps' = steps + 1
  /\ before' = Snapshot
  /\ UNCHANGED <<publishThrows, authVars, teamVars, pageVars>>
  /\ subscriptions' =
       Append(subscriptions,
              [conn |-> conn, field |-> field, arg |-> arg,
               user |-> header,
               topic |-> SubscribeResolver(field, arg, header),
               at |-> Len(published),
               registered |-> SubscriptionHandlersInstalled,
               received |-> << >>])
  /\ last' = [op |-> "subscribe", id |-> arg, input |-> [field |-> field],
              user |-> header, threw |-> ~SubscriptionHandlersInstalled,
              result |-> IF SubscriptionHandlersInstalled
                         THEN SubscribeResolver(field, arg, header)
                         ELSE Throws]
  /\ UNCHANGED <<tasks, notifications, published, uuids, clock>>

(* --------------------------- user service ----------------------------- *)

\* expiresIn: '24h', in hours.
ExpiresIn == 24

SeedUsers ==
  << [id |-> "1", email |-> "admin@taskmanager.com",
      password |-> "$2a$10$XYZ...", name |-> "Admin User", role |-> "admin",
      teamId |-> "1"],
     [id |-> "2", email |-> "user@taskmanager.com",
      password |-> "$2a$10$ABC...", name |-> "Regular User", role |-> "user",
      teamId |-> "1"] >>

\* The passwords the start-up block hashes into users[0] and users[1].
SeedPasswords == <<"admin123", "user123">>

\* bcrypt.hash(password, 10): a hash that only this password matches.
BcryptHash(password) == "$2a$10$hash-of-" \o password

\* bcrypt.compare(password, hash); a string that is no hash matches nothing.
BcryptCompare(password, hash) == hash = BcryptHash(password)

\* The start-up block is an async function: each assignment happens when
\* its hash is ready, users[0] first.
hashSeedPasswords ==
  /\ \E i \in 1..Len(SeedUsers) : users[i].password = SeedUsers[i].password
  /\ LET i == CHOOSE k \in 1..Len(SeedUsers) :
                /\ users[k].password = SeedUsers[k].password
                /\ \A j \in 1..(k - 1) :
                     users[j].password # SeedUsers[j].password
     IN users' = [users EXCEPT ![i].password = BcryptHash(SeedPasswords[i])]
  /\ authLast' = [op |-> "hash", status |-> 0, token |-> [absent |-> TRUE],
                  result |-> [absent |-> TRUE]]
  /\ UNCHANGED <<tokens, hours, registering>>
  /\ UNCHANGED <<taskVars, teamVars, pageVars>>

\* The bodies of the login requests.
LoginRequests ==
  {<<"admin@taskmanager.com", "admin123">>,
   <<"admin@taskmanager.com", "wrong">>,
   <<"nobody@taskmanager.com", "admin123">>,
   <<Undefined, "admin123">>}

\* users.find(u => u.email === email): its 1-based index, 0 for undefined.
FindUser(arr, email) ==
  IF \E i \in 1..Len(arr) : arr[i].email = email
  THEN CHOOSE i \in 1..Len(arr) :
         arr[i].email = email /\ \A j \in 1..(i - 1) : arr[j].email # email
  ELSE 0

\* Mutant: the token lives two days.
TokenExpiryTwoDays(iat) == iat + 2 * ExpiresIn

\* The exp claim jwt.sign computes for expiresIn: '24h'.
TokenExpiry(iat) == iat + ExpiresIn

\* jwt.sign(payload, privateKey, { algorithm: 'RS256', expiresIn: '24h' })
SignToken(user, iat) ==
  [id |-> user.id, email |-> user.email, name |-> user.name,
   role |-> user.role, teamId |-> user.teamId, iat |-> iat,
   exp |-> TokenExpiry(iat), alg |-> "RS256", key |-> "jwt-private.key"]

\* The response of POST /login; keyReadable: one of the two key files can
\* be read when the request is served.
LoginResponse(email, password, keyReadable) ==
  LET none == [absent |-> TRUE]
      index == FindUser(users, email)
  IN IF ~Truthy(email) \/ ~Truthy(password)
     THEN [status |-> 400, token |-> none,
           result |-> [error |-> "Email and password are required"]]
     ELSE IF index = 0
     THEN [status |-> 401, token |-> none,
           result |-> [error |-> "Invalid email or password"]]
     ELSE IF ~BcryptCompare(password, users[index].password)
     THEN [status |-> 401, token |-> none,
           result |-> [error |-> "Invalid email or password"]]
     ELSE IF ~keyReadable
     THEN [status |-> 500, token |-> none,
           result |-> [error |-> "JWT key not configured"]]
     ELSE [status |-> 200, token |-> SignToken(users[index], hours),
           result |-> [message |-> "Login successful"]]

login(email, password, keyReadable) ==
  LET response == LoginResponse(email, password, keyReadable) IN
  /\ response.status = 200 => Len(tokens) < MaxTokens
  /\ tokens' = IF response.status = 200
               THEN Append(tokens, [token |-> response.token,
                                    accepted |-> FALSE])
               ELSE tokens
  /\ authLast' = [op |-> "login", status |-> response.status,
                  token |-> response.token, result |-> response.result,
                  request |-> [email |-> email, password |-> password,
                               keyReadable |-> keyReadable]]
  /\ UNCHANGED <<users, hours, registering>>
  /\ UNCHANGED <<taskVars, teamVars, pageVars>>

\* The bodies of the register requests.
RegisterRequests ==
  {[email |-> "new@taskmanager.com", password |-> "secret",
    name |-> "New User", teamId |-> Undefined],
   [email |-> "new@taskmanager.com", password |-> "secret",
    name |-> "New User", teamId |-> "2"],
   [email |-> "admin@taskmanager.com", password |-> "secret",
    name |-> "Second Admin", teamId |-> Undefined],
   [email |-> "new@taskmanager.com", password |-> "secret",
    name |-> Undefined, teamId |-> Undefined]}

\* The k-th user id uuidv4() returns.
UserUuid(k) == "uuid-user-" \o ToString(k)

\* const newUser = { id: uuidv4(), email, password: hashedPassword, ... }
NewUser(id, body, createdAt) ==
  [id |-> id, email |-> body.email, password |-> BcryptHash(body.password),
   name |-> body.name, role |-> "user",
   teamId |-> IF Truthy(body.teamId) THEN body.teamId ELSE "1",
   createdAt |-> createdAt]

\* POST /register up to its await: validation, the lookup of the email,
\* and the call of bcrypt.hash, whose promise the handler awaits.
registerCheck(body) ==
  /\ Len(users) + Len(registering) < MaxUsers
  /\ IF ~Truthy(body.email) \/ ~Truthy(body.password) \/ ~Truthy(body.name)
     THEN /\ authLast' = [op |-> "register", status |-> 400,
                          token |-> [absent |-> TRUE],
                          result |-> [error |->
                            "Email, password, and name are required"],
                          request |-> body]
          /\ UNCHANGED registering
     ELSE IF FindUser(users, body.email) # 0
     THEN /\ authLast' = [op |-> "register", status |-> 409,
                          token |-> [absent |-> TRUE],
                          result |-> [error |->
                            "User with this email already exists"],
                          request |-> body]
          /\ UNCHANGED registering
     ELSE /\ registering' = Append(registering, body)
          /\ authLast' = [op |-> "register", status |-> 0,
                          token |-> [absent |-> TRUE],
                          result |-> [awaiting |-> "bcrypt.hash"],
                          request |-> body]
  /\ UNCHANGED <<users, tokens, hours>>
  /\ UNCHANGED <<taskVars, teamVars, pageVars>>

\* POST /register after its await: the hash of the i-th waiting request is
\* ready, the user is appended and 201 is answered.
registerAppend(i) ==
  /\ i \in 1..Len(registering)
  /\ users' = Append(users,
                     NewUser(UserUuid(Len(users) + 1), registering[i], hours))
  /\ registering' = Splice(registering, i)
  /\ authLast' = [op |-> "register", status |-> 201,
                  token |-> [absent |-> TRUE],
                  result |-> [message |-> "User registered successfully"],
                  request |-> registering[i]]
  /\ UNCHANGED <<tokens, hours>>
  /\ UNCHANGED <<taskVars, teamVars, pageVars>>

\* An hour passes.
tick ==
  /\ hours < MaxHours
  /\ hours' = hours + 1
  /\ authLast' = [op |-> "tick", status |-> 0, token |-> [absent |-> TRUE],
                  result |-> [absent |-> TRUE]]
  /\ UNCHANGED <<users, tokens, registering>>
  /\ UNCHANGED <<taskVars, teamVars, pageVars>>

(* ------------------------------ gateway ------------------------------- *)

\* A token signed with a key that is not the user service's.
ForgedToken ==
  [SignToken(SeedUsers[1], 0) EXCEPT !.key = "another.key"]

\* The tokens a request may present: an issued one, a forged one, none.
PresentedTokens ==
  {tokens[i].token : i \in 1..Len(tokens)}
    \cup {ForgedToken, [absent |-> TRUE]}

\* The identity claim a token carries.
IdentityClaim(token) ==
  [id |-> token.id, email |-> token.email, name |-> token.name,
   role |-> token.role, teamId |-> token.teamId]

Unauthenticated == [error |-> "Unauthenticated"]

\* verify(token) at the time `now`: fails when the token is absent, its
\* signature does not validate against the public key of jwt-private.key,
\* or its expiry has passed.
Verify(token, now) ==
  IF "absent" \in DOMAIN token THEN Unauthenticated
  ELSE IF token.alg # "RS256" \/ token.key # "jwt-private.key"
  THEN Unauthenticated
  ELSE IF now >= token.exp THEN Unauthenticated
  ELSE IdentityClaim(token)

verify(token) ==
  LET result == Verify(token, hours) IN
  /\ authLast' = [op |-> "verify",
                  status |-> IF result = Unauthenticated THEN 401 ELSE 200,
                  token |-> token, result |-> result]
  /\ tokens' = [i \in 1..Len(tokens) |->
                 IF tokens[i].token = token /\ result # Unauthenticated
                 THEN [tokens[i] EXCEPT !.accepted = TRUE]
                 ELSE tokens[i]]
  /\ UNCHANGED <<users, hours, registering>>
  /\ UNCHANGED <<taskVars, teamVars, pageVars>>

(* ------------------------------- teams -------------------------------- *)

\* let teams = [...] of the routes; createdAt is the load time.
SeedTeams ==
  << [id |-> "1", name |-> "Development Team",
      description |-> "Main development team", members |-> <<"1", "2">>,
      createdAt |-> 0],
     [id |-> "2", name |-> "Marketing Team",
      description |-> "Marketing and promotion team", members |-> << >>,
      createdAt |-> 0] >>

\* const teams = [...] of the store: the same teams, with updatedAt.
SeedStoreTeams ==
  [i \in 1..Len(SeedTeams) |-> Spread(SeedTeams[i], [updatedAt |-> 0])]

\* The team ids and user ids a member operation may name.
TeamIdArguments == {"1", "2", "404"}
UserIdArguments == {"1", "3", Undefined}

\* members.includes(userId)
Includes(members, userId) == \E i \in 1..Len(members) : members[i] = userId

\* members.filter(member => member !== userId)
WithoutMember(members, userId) ==
  SelectSeq(members, LAMBDA member : member # userId)

\* The time a member operation reads.
TeamNow == teamClock + 1

\* What a member operation leaves in teamLast.
Served(op, teamId, userId, status, result) ==
  /\ teamClock < MaxTeamClock
  /\ teamClock' = TeamNow
  /\ teamLast' = [op |-> op, teamId |-> teamId, userId |-> userId,
                  status |-> status, result |-> result,
                  teams |-> teams, storeTeams |-> storeTeams]
  /\ UNCHANGED <<taskVars, authVars, pageVars>>

NoTeam == [error |-> "Team not found"]

\* POST /api/teams/:id/members
postMember(id, userId) ==
  LET index == FindIndex(teams, id) IN
  /\ UNCHANGED storeTeams
  /\ IF index = 0
     THEN /\ Served("postMember", id, userId, 404, NoTeam)
          /\ UNCHANGED teams
     ELSE IF ~Truthy(userId)
     THEN /\ Served("postMember", id, userId, 400,
                    [error |-> "User ID is required"])
          /\ UNCHANGED teams
     ELSE IF Includes(teams[index].members, userId)
     THEN /\ Served("postMember", id, userId, 409,
                    [error |-> "User is already a member"])
          /\ UNCHANGED teams
     ELSE LET team == [teams[index] EXCEPT !.members = Append(@, userId)]
          IN /\ teams' = [teams EXCEPT ![index] = team]
             /\ Served("postMember", id, userId, 200, team)

\* DELETE /api/teams/:id/members/:userId
deleteMember(id, userId) ==
  LET index == FindIndex(teams, id) IN
  /\ UNCHANGED storeTeams
  /\ IF index = 0
     THEN /\ Served("deleteMember", id, userId, 404, NoTeam)
          /\ UNCHANGED teams
     ELSE LET team == [teams[index] EXCEPT
                        !.members = WithoutMember(@, userId)]
          IN /\ teams' = [teams EXCEPT ![index] = team]
             /\ Served("deleteMember", id, userId, 200, team)

\* Mutant: the user is pushed whether or not the team has it.
AddedMemberAlways(team, userId, updatedAt) ==
  [team EXCEPT !.members = Append(@, userId), !.updatedAt = updatedAt]

\* if (!team.members.includes(userId)) { push; updatedAt = now }
AddedMember(team, userId, updatedAt) ==
  IF ~Includes(team.members, userId)
  THEN [team EXCEPT !.members = Append(@, userId), !.updatedAt = updatedAt]
  ELSE team

\* addMemberToTeam(teamId, userId) of the store; status 0: no HTTP answer.
addMemberToTeam(teamId, userId) ==
  LET index == FindIndex(storeTeams, teamId) IN
  /\ UNCHANGED teams
  /\ IF index = 0
     THEN /\ Served("addMemberToTeam", teamId, userId, 0, [null |-> TRUE])
          /\ UNCHANGED storeTeams
     ELSE LET team == AddedMember(storeTeams[index], userId, TeamNow)
          IN /\ storeTeams' = [storeTeams EXCEPT ![index] = team]
             /\ Served("addMemberToTeam", teamId, userId, 0, team)

\* removeMemberFromTeam(teamId, userId) of the store.
removeMemberFromTeam(teamId, userId) ==
  LET index == FindIndex(storeTeams, teamId) IN
  /\ UNCHANGED teams
  /\ IF index = 0
     THEN /\ Served("removeMemberFromTeam", teamId, userId, 0,
                    [null |-> TRUE])
          /\ UNCHANGED storeTeams
     ELSE LET team == [storeTeams[index] EXCEPT
                        !.members = WithoutMember(@, userId),
                        !.updatedAt = TeamNow]
          IN /\ storeTeams' = [storeTeams EXCEPT ![index] = team]
             /\ Served("removeMemberFromTeam", teamId, userId, 0, team)

(* ----------------------------- dashboard ------------------------------ *)

\* The number of notifications the dashboard keeps: slice(0, 5).
Shown == 5

\* A notification id is a prefix and a rest: `local-${...}` for the ones
\* the page makes, the server's id otherwise.
IsLocal(item) == item.id[1] = "local-"

\* The answers of the notifications query the page may receive: lists of
\* server notifications in the server's order.
NotificationsData ==
  LET a == [id |-> <<"", "1">>, message |-> "assigned", createdAt |-> 1]
      b == [id |-> <<"", "uuid-1">>, message |-> "status", createdAt |-> 9]
      c == [id |-> <<"", "uuid-2">>, message |-> "status", createdAt |-> 4]
  IN {<< >>, <<a>>, <<a, b, c>>}

\* The place Array.prototype.sort gives `item` among `sorted` under the
\* comparator b.createdAt - a.createdAt: after every entry that is not
\* older (the sort is stable).
InsertNewestFirst(sorted, item) ==
  LET ahead == SelectSeq(sorted, LAMBDA x : x.createdAt >= item.createdAt)
      behind == SelectSeq(sorted, LAMBDA x : x.createdAt < item.createdAt)
  IN ahead \o <<item>> \o behind

RECURSIVE SortNewestFirst(_)
\* arr.sort((a, b) => new Date(b.createdAt) - new Date(a.createdAt))
SortNewestFirst(arr) ==
  IF arr = << >> THEN << >>
  ELSE InsertNewestFirst(SortNewestFirst(SubSeq(arr, 1, Len(arr) - 1)),
                         arr[Len(arr)])

\* arr.slice(0, end)
SliceTo(arr, end) == SubSeq(arr, 1, IF Len(arr) < end THEN Len(arr) ELSE end)

\* Mutant: the new entry is put first and the list cut, without sorting.
PushedUnsorted(prev, item) == SliceTo(<<item>> \o prev, Shown)

\* The state pushNotification sets.
Pushed(prev, item) ==
  SliceTo(SortNewestFirst(<<item>> \o SelectSeq(prev, IsLocal)
                            \o SelectSeq(prev, LAMBDA n : ~IsLocal(n))),
          Shown)

\* The state the effect on notificationsData sets.
Refreshed(prev, data) ==
  SliceTo(SortNewestFirst(SelectSeq(prev, IsLocal) \o SortNewestFirst(data)),
          Shown)

\* The time a dashboard event reads.
PageNow == pageClock + 1

Handled(op) ==
  /\ pageClock < MaxPageClock
  /\ pageClock' = PageNow
  /\ pageLast' = [op |-> op, displayed |-> displayed]
  /\ UNCHANGED <<taskVars, authVars, teamVars>>

pushNotification(message) ==
  /\ Handled("pushNotification")
  /\ displayed' =
       Pushed(displayed, [id |-> <<"local-", ToString(PageNow)>>,
                          message |-> message, createdAt |-> PageNow])

\* useEffect(..., [notificationsData])
refreshNotifications(data) ==
  /\ Handled("refreshNotifications")
  /\ displayed' = Refreshed(displayed, data)

handleLogout ==
  /\ Handled("handleLogout")
  /\ displayed' = << >>

(* --------------------------- specification ---------------------------- *)

Started ==
  /\ tasks = SeedTasks
  /\ notifications = SeedNotifications
  /\ published = << >>
  /\ subscriptions = << >>
  /\ uuids = 0
  /\ clock = 0
  /\ last = [op |-> "start", id |-> Undefined, input |-> EmptyObject,
             user |-> Undefined, threw |-> FALSE, result |-> Undefined]
  /\ before = [tasks |-> SeedTasks, notifications |-> SeedNotifications,
               published |-> 0]
  /\ steps = 0
  /\ users = SeedUsers
  /\ tokens = << >>
  /\ hours = 0
  /\ authLast = [op |-> "start", status |-> 0, token |-> [absent |-> TRUE],
                 result |-> [absent |-> TRUE]]
  /\ registering = << >>
  /\ teams = SeedTeams
  /\ storeTeams = SeedStoreTeams
  /\ teamClock = 0
  /\ teamLast = [op |-> "start", teamId |-> Undefined, userId |-> Undefined,
                 status |-> 0, result |-> [null |-> TRUE],
                 teams |-> SeedTeams, storeTeams |-> SeedStoreTeams]
  /\ displayed = << >>
  /\ pageClock = 0
  /\ pageLast = [op |-> "start", displayed |-> << >>]

\* The services have started; publish works.
Init == Started /\ publishThrows = FALSE

\* The services have started; publish throws.
InitPublishThrows == Started /\ publishThrows = TRUE

Next ==
  \/ \E input \in CreateTaskInputs, header \in UserHeaders :
       createTask(input, header)
  \/ \E id \in IdArguments, input \in UpdateTaskInputs : updateTask(id, input)
  \/ \E id \in IdArguments : deleteTask(id)
  \/ \E id \in NotificationIdArguments : markNotificationRead(id)
  \/ \E a \in TasksQueryArguments : tasksQuery(a[1], a[2], a[3])
  \/ \E userId \in NotificationsQueryArguments : notificationsQuery(userId)
  \/ \E conn \in Connections, r \in SubscriptionRequests,
        header \in SubscriptionHeaders :
       subscribe(conn, r[1], r[2], header)

Spec == Init /\ [][Next]_vars

\* The user service and the gateway's verification of its tokens.
AuthNext ==
  \/ hashSeedPasswords
  \/ \E r \in LoginRequests, keyReadable \in BOOLEAN :
       login(r[1], r[2], keyReadable)
  \/ tick
  \/ \E token \in PresentedTokens : verify(token)

AuthSpec == Init /\ [][AuthNext]_vars

\* The user service under concurrent register requests.
RegisterNext ==
  \/ hashSeedPasswords
  \/ \E body \in RegisterRequests : registerCheck(body)
  \/ \E i \in 1..Len(registering) : registerAppend(i)

RegisterSpec == Init /\ [][RegisterNext]_vars

\* The member operations of the team routes and of the team store.
TeamNext ==
  \/ \E id \in TeamIdArguments, userId \in UserIdArguments :
       postMember(id, userId)
  \/ \E id \in TeamIdArguments, userId \in UserIdArguments \ {Undefined} :
       deleteMember(id, userId)
  \/ \E id \in TeamIdArguments, userId \in UserIdArguments \ {Undefined} :
       addMemberToTeam(id, userId)
  \/ \E id \in TeamIdArguments, userId \in UserIdArguments \ {Undefined} :
       removeMemberFromTeam(id, userId)

TeamSpec == Init /\ [][TeamNext]_vars

\* The dashboard's notification list.
PageNext ==
  \/ \E message \in {"Task removed"} : pushNotification(message)
  \/ \E data \in NotificationsData : refreshNotifications(data)
  \/ handleLogout

PageSpec == Init /\ [][PageNext]_vars

\* The task service with a pubsub whose publish throws.
PublishThrowsSpec == InitPublishThrows /\ [][Next]_vars

(* ------------------------------ properties ---------------------------- *)

Teams == {"1", "2"}
Users == {"1", "2", "3"}

Ids(arr) == {arr[i]["id"] : i \in 1..Len(arr)}

\* The events the request served last has published, in order.
LastEvents == SubSeq(published, before.published + 1, Len(published))

IsTaskCreated(e) == "taskCreated" \in DOMAIN e.payload
IsNotificationAdded(e) == "notificationAdded" \in DOMAIN e.payload

\* The notification events among evs.
NotificationEvents(evs) == SelectSeq(evs, IsNotificationAdded)

\* The task the request served last named, as the request found it.
OldTask ==
  before.tasks[CHOOSE i \in 1..Len(before.tasks) :
                 before.tasks[i]["id"] = last.id]

Succeeded(op) == last.op = op /\ ~last.threw

\* tasks(teamId: team), run on the array `stored`, returns a task with
\* this id.
ListedIn(stored, id, team) ==
  \E i \in 1..Len(TasksResolver(stored, team, Undefined, Undefined)) :
    TasksResolver(stored, team, Undefined, Undefined)[i]["id"] = id

Listed(id, team) == ListedIn(tasks, id, team)

\* The request `served` is a deleteTask of this id that returned true.
IsDeleteOf(served, id) ==
  served.op = "deleteTask" /\ served.id = id /\ served.result = TRUE

\* C1 (state part): the task createTask returns has status TODO and a
\* non-empty id that no task stored before had, is stored, and is returned
\* by tasks(teamId = its team).
C1_CreatedTask ==
  Succeeded("createTask") =>
    /\ last.result["status"] = "TODO"
    /\ last.result["id"] \notin {"", Null, Undefined}
    /\ last.result["id"] \notin Ids(before.tasks)
    /\ last.result["teamId"] = last.input["teamId"]
    /\ \E i \in 1..Len(tasks) : tasks[i] = last.result
    /\ Listed(last.result["id"], last.input["teamId"])

\* C1 (step part): a stored task is still returned by tasks(teamId = the
\* team it has) after every request that is not a successful deleteTask of
\* its id, and it keeps that team.
C1_StaysListed ==
  \A i \in 1..Len(tasks) :
    ~IsDeleteOf(last', tasks[i]["id"]) =>
      /\ ListedIn(tasks', tasks[i]["id"], tasks[i]["teamId"])
      /\ \E j \in 1..Len(tasks') :
           /\ tasks'[j]["id"] = tasks[i]["id"]
           /\ tasks'[j]["teamId"] = tasks[i]["teamId"]

\* C1: for every createTask input the returned task has status TODO and a
\* non-empty id distinct from every existing task id, and from then on a
\* tasks(teamId = its team) query returns it in every state until a
\* deleteTask of that id succeeds.
C1_CreateTaskListed == [](C1_CreatedTask) /\ [][C1_StaysListed]_vars

\* A created task was updated afterwards and is still listed under its team.
C1_Witness ==
  /\ Succeeded("updateTask")
  /\ last.id = Uuid(1)
  /\ \E tm \in Teams : Listed(Uuid(1), tm)

\* C2: deleteTask of a stored id returns true and removes that task; of an
\* id that is not stored (a second delete, an unknown id) it returns false
\* without throwing, leaves tasks and notifications as they were and
\* publishes nothing.
C2_DeleteTwice ==
  last.op = "deleteTask" =>
    /\ ~last.threw
    /\ IF last.id \in Ids(before.tasks)
       THEN /\ last.result = TRUE
            /\ tasks = SelectSeq(before.tasks, LAMBDA t : t["id"] # last.id)
            /\ Len(tasks) = Len(before.tasks) - 1
       ELSE /\ last.result = FALSE
            /\ tasks = before.tasks
            /\ notifications = before.notifications
            /\ LastEvents = << >>

\* The second deleteTask("1"): the first one has published the id.
C2_Witness ==
  /\ last.op = "deleteTask"
  /\ last.id = "1"
  /\ last.result = FALSE
  /\ \E i \in 1..Len(published) :
       published[i].payload = [taskDeleted |-> "1"]

\* C3: an updateTask whose patch carries the status the task already has
\* creates no notification and publishes nothing on a notification topic,
\* whatever else the patch carries and whether or not the task has an
\* assignee.
C3_SameStatusSilent ==
  (/\ Succeeded("updateTask")
   /\ "status" \in DOMAIN last.input
   /\ last.input["status"] = Get(OldTask, "status")) =>
    /\ notifications = before.notifications
    /\ NotificationEvents(LastEvents) = << >>

\* Task 2, assigned and IN_PROGRESS, is updated to IN_PROGRESS.
C3_Witness ==
  /\ Succeeded("updateTask")
  /\ last.id = "2"
  /\ Get(last.input, "status") = "IN_PROGRESS"
  /\ Get(OldTask, "status") = "IN_PROGRESS"
  /\ Truthy(Get(last.result, "assignedTo"))

\* The request served last has appended exactly the notification n.
AppendedOne ==
  /\ Len(notifications) = Len(before.notifications) + 1
  /\ SubSeq(notifications, 1, Len(before.notifications))
       = before.notifications

\* The request served last has created one notification of this type for
\* this user and this task, and has published that notification, once, on
\* the user's notification topic and on no other notification topic.
NotifiedOnce(type, userId, taskId) ==
  /\ AppendedOne
  /\ LET n == notifications[Len(notifications)] IN
       /\ n.type = type
       /\ n.userId = userId
       /\ n.taskId = taskId
       /\ n.read = FALSE
       /\ n.id \notin Ids(before.notifications)
       /\ NotificationEvents(LastEvents)
            = << [topic |-> NotificationAddedTopic(userId),
                  payload |-> [notificationAdded |-> n]] >>
       /\ \A u \in Users \ {userId} :
            NotificationEvents(LastEvents)[1].topic
              # NotificationAddedTopic(u)

\* The request served last has created and published no notification.
NotifiedNobody ==
  /\ notifications = before.notifications
  /\ NotificationEvents(LastEvents) = << >>

\* C4 as claimed: an updateTask whose patch carries a status different from
\* the prior one, on a task that had an assignee when the request arrived,
\* creates and publishes exactly one TASK_STATUS_CHANGED notification for
\* that assignee.
C4_PriorAssigneeNotified ==
  (/\ Succeeded("updateTask")
   /\ Get(last.input, "status") \in TaskStatus
   /\ Get(last.input, "status") # Get(OldTask, "status")
   /\ Truthy(Get(OldTask, "assignedTo"))) =>
    NotifiedOnce("TASK_STATUS_CHANGED", Get(OldTask, "assignedTo"), last.id)

\* C4, amended: an updateTask whose patch carries a status (not null)
\* different from the prior one, on a task that has a non-empty assignee
\* once the patch is applied, adds exactly one notification, of type
\* TASK_STATUS_CHANGED, for that assignee and that task, and publishes it
\* once on that assignee's notification topic.
C4_StatusChangeNotifies ==
  (/\ Succeeded("updateTask")
   /\ Get(last.input, "status") \in TaskStatus
   /\ Get(last.input, "status") # Get(OldTask, "status")
   /\ Truthy(Get(last.result, "assignedTo"))) =>
    NotifiedOnce("TASK_STATUS_CHANGED", Get(last.result, "assignedTo"),
                 last.id)

\* Task 1, COMPLETED and assigned to user 1, is moved to IN_PROGRESS and
\* reassigned to user 3 by one patch: user 3 is notified.
C4_Witness ==
  /\ Succeeded("updateTask")
  /\ last.id = "1"
  /\ Get(last.input, "status") = "IN_PROGRESS"
  /\ Get(OldTask, "status") = "COMPLETED"
  /\ Get(OldTask, "assignedTo") = "1"
  /\ Get(last.input, "assignedTo") = "3"
  /\ notifications[Len(notifications)].userId = "3"
  /\ Len(notifications) = Len(before.notifications) + 1

\* C5 as claimed: createTask creates and publishes one TASK_ASSIGNED
\* notification for input.assignedTo if and only if assignedTo is present
\* and differs from the creator id.
C5_PresentAssigneeNotified ==
  Succeeded("createTask") =>
    IF /\ Get(last.input, "assignedTo") \notin {Undefined, Null}
       /\ Get(last.input, "assignedTo") # last.result["createdBy"]
    THEN NotifiedOnce("TASK_ASSIGNED", Get(last.input, "assignedTo"),
                      last.result["id"])
    ELSE NotifiedNobody

\* C5, amended: createTask creates exactly one TASK_ASSIGNED notification
\* for input.assignedTo and publishes it on that user's notification topic
\* if and only if assignedTo is present, is not the empty string and differs
\* from the creator id; otherwise the notification collection is unchanged
\* and nothing is published on a notification topic.
C5_AssigneeNotified ==
  Succeeded("createTask") =>
    IF /\ Get(last.input, "assignedTo") \notin {Undefined, Null, ""}
       /\ Get(last.input, "assignedTo") # last.result["createdBy"]
    THEN NotifiedOnce("TASK_ASSIGNED", Get(last.input, "assignedTo"),
                      last.result["id"])
    ELSE NotifiedNobody

\* User 2 creates a task for user 1: user 1 is notified.
C5_Witness ==
  /\ Succeeded("createTask")
  /\ last.result["createdBy"] = "2"
  /\ Get(last.input, "assignedTo") = "1"
  /\ Len(notifications) = Len(before.notifications) + 1
  /\ notifications[Len(notifications)].userId = "1"

\* C6: every successful createTask publishes exactly one task-created
\* event, on the topic of input.teamId and on no other team's topic, and
\* its payload is the task that was stored and returned.
C6_TaskCreatedPublished ==
  Succeeded("createTask") =>
    /\ SelectSeq(LastEvents, IsTaskCreated)
         = << [topic |-> TaskCreatedTopic(last.input["teamId"]),
               payload |-> [taskCreated |-> last.result]] >>
    /\ tasks = Append(before.tasks, last.result)
    /\ \A tm \in Teams :
         Len(SelectSeq(LastEvents,
                       LAMBDA e : e.topic = TaskCreatedTopic(tm)))
           = IF tm = last.input["teamId"] THEN 1 ELSE 0
    /\ \A e \in {LastEvents[i] : i \in 1..Len(LastEvents)} :
         IsTaskCreated(e) \/ IsNotificationAdded(e)

\* A task is created under team 2 after one was created under team 1.
C6_Witness ==
  /\ Succeeded("createTask")
  /\ last.input["teamId"] = "2"
  /\ Len(published) > Len(LastEvents)
  /\ \E i \in 1..before.published :
       published[i].topic = TaskCreatedTopic("1")

\* C7: a successful deleteTask(id) removes the task, leaves no notification
\* whose taskId is id while keeping every notification of another task, in
\* order, and publishes the id exactly once, on the task-deleted topic of
\* the team the task belonged to, and nothing else.
C7_DeleteCascades ==
  (last.op = "deleteTask" /\ last.result = TRUE) =>
    /\ last.id \notin Ids(tasks)
    /\ \A i \in 1..Len(notifications) : notifications[i].taskId # last.id
    /\ notifications
         = SelectSeq(before.notifications, LAMBDA n : n.taskId # last.id)
    /\ LastEvents
         = << [topic |-> TaskDeletedTopic(OldTask["teamId"]),
               payload |-> [taskDeleted |-> last.id]] >>
    /\ \A tm \in Teams \ {OldTask["teamId"]} :
         LastEvents[1].topic # TaskDeletedTopic(tm)

\* A created task that has a notification is deleted: its notification
\* goes, the seeded notification of task 2 stays.
C7_Witness ==
  /\ last.op = "deleteTask"
  /\ last.result = TRUE
  /\ last.id = Uuid(1)
  /\ \E i \in 1..Len(before.notifications) :
       before.notifications[i].taskId = Uuid(1)
  /\ notifications = SeedNotifications

\* C8: updateTask with an id that matches no stored task fails with the
\* error 'Task not found' and leaves the tasks, the notifications and the
\* published events as they were.
C8_UpdateUnknownFails ==
  (last.op = "updateTask" /\ last.id \notin Ids(before.tasks)) =>
    /\ last.threw
    /\ last.result = "Task not found"
    /\ tasks = before.tasks
    /\ notifications = before.notifications
    /\ LastEvents = << >>

\* Task 1 was deleted, and an updateTask("1") that carries a new status
\* fails.
C8_Witness ==
  /\ last.op = "updateTask"
  /\ last.threw
  /\ last.id = "1"
  /\ Get(last.input, "status") = "IN_PROGRESS"
  /\ Len(tasks) = 1

\* C9: updateTask changes only the fields its patch carries (all of them
\* among title, description, status, priority, assignedTo, dueDate) and
\* updatedAt: a carried field takes the patch's value, every other field
\* keeps its prior value, every other task is unchanged and the task keeps
\* its position.
C9_UpdateFrame ==
  Succeeded("updateTask") =>
    /\ DOMAIN last.input \subseteq UpdateTaskInputFields
    /\ Len(tasks) = Len(before.tasks)
    /\ \A i \in 1..Len(tasks) :
         IF before.tasks[i]["id"] = last.id
         THEN /\ tasks[i] = last.result
              /\ DOMAIN tasks[i]
                   = (DOMAIN before.tasks[i]) \cup (DOMAIN last.input)
              /\ \A f \in DOMAIN tasks[i] :
                   IF f \in DOMAIN last.input
                   THEN tasks[i][f] = last.input[f]
                   ELSE f # "updatedAt" =>
                          tasks[i][f] = before.tasks[i][f]
         ELSE tasks[i] = before.tasks[i]

\* The second stored task is renamed: its status, assignee, team and the
\* first task stay.
C9_Witness ==
  /\ Succeeded("updateTask")
  /\ last.id = "2"
  /\ DOMAIN last.input = {"title"}
  /\ tasks[2]["title"] = "Renamed"
  /\ tasks[2]["status"] = "IN_PROGRESS"
  /\ tasks[2]["updatedAt"] # before.tasks[2]["updatedAt"]
  /\ tasks[1] = SeedTasks[1]

\* The payloads published on this topic after the first `at` publishes.
PublishedSince(topic, at) ==
  LET later == SubSeq(published, at + 1, Len(published))
      mine == SelectSeq(later, LAMBDA e : e.topic = topic)
  IN [i \in 1..Len(mine) |-> mine[i].payload]

Payloads(events) == [i \in 1..Len(events) |-> events[i].payload]

\* C10: a client that has subscribed to a topic (task-created of team T,
\* task-updated, task-deleted, notification) has received every payload
\* published on that topic since, each once and in publish order, and
\* nothing published on another topic.
C10_SubscriberReceives ==
  \A i \in 1..Len(subscriptions) :
    Payloads(subscriptions[i].received)
      = PublishedSince(subscriptions[i].topic, subscriptions[i].at)

\* The identity a user header carries: the JSON of a token's payload
\* (id, role, teamId). The headers of SubscriptionHeaders carry an id alone.
IdentityUserId(header) ==
  IF header = Undefined THEN Undefined ELSE JsonParseId(header)
IdentityTeamId(header) == Undefined
IdentityRole(header) == Undefined

\* The identity is authorized for the topic of this subscription field.
Authorized(field, arg, header) ==
  /\ header # Undefined
  /\ IF field = "notificationAdded"
     THEN IdentityUserId(header) = arg
     ELSE IdentityTeamId(header) = arg \/ IdentityRole(header) = "admin"

\* C13: a subscribe request whose identity is not authorized for the topic
\* (notificationAdded: user id = userId; task topics: team id = teamId or
\* admin role) fails with Forbidden and registers no listener.
C13_UnauthorizedForbidden ==
  (last.op = "subscribe"
   /\ ~Authorized(last.input.field, last.id, last.user)) =>
    /\ last.result = "Forbidden"
    /\ ~subscriptions[Len(subscriptions)].registered

\* C14: a createTask request that carries no identity is rejected before
\* the resolver runs: it fails and stores no task.
C14_NoAnonymousCreate ==
  (last.op = "createTask" /\ last.user = Undefined) =>
    /\ last.threw
    /\ tasks = before.tasks

\* The task passes every filter of the query that `provided` holds of.
Matches(task, filters, provided(_)) ==
  \A f \in DOMAIN filters : provided(filters[f]) => Get(task, f) = filters[f]

\* The filter has a value (the original reading: null stands for omitted).
Provided(v) == v \notin {Undefined, Null}

\* C15 as stated: tasks(...) returns exactly the stored tasks that match
\* every provided filter, in collection order, and changes no collection.
C15_ProvidedFiltersApplied ==
  last.op = "tasks" =>
    /\ last.result
         = SelectSeq(tasks, LAMBDA t : Matches(t, last.input, Provided))
    /\ tasks = before.tasks
    /\ notifications = before.notifications

\* C15: tasks(teamId, assignedTo, status) returns exactly the stored tasks
\* that match every filter given a non-empty value, in collection order; an
\* omitted, null or empty-string filter constrains nothing, so a query with
\* no filters returns every stored task; the query changes neither the task
\* nor the notification collection.
C15_NonEmptyFiltersApplied ==
  last.op = "tasks" =>
    /\ last.result
         = SelectSeq(tasks, LAMBDA t : Matches(t, last.input, Truthy))
    /\ (\A f \in DOMAIN last.input : last.input[f] = Undefined)
         => last.result = tasks
    /\ tasks = before.tasks
    /\ notifications = before.notifications

\* A three-filter query that keeps one stored task and drops another.
C15_Witness ==
  /\ last.op = "tasks"
  /\ last.input = [teamId |-> "1", assignedTo |-> "2",
                   status |-> "IN_PROGRESS"]
  /\ Len(last.result) = 1
  /\ Len(tasks) > 1

\* The notification markNotificationRead(id) finds: the first with this id.
Found(arr, id) ==
  CHOOSE i \in 1..Len(arr) :
    arr[i]["id"] = id /\ \A j \in 1..(i - 1) : arr[j]["id"] # id

\* C16 (state part): markNotificationRead(id) returns false and changes
\* nothing when no notification has that id; otherwise it returns true, the
\* notification's read flag is true and nothing else has changed.
C16_Marked ==
  last.op = "markNotificationRead" =>
    /\ tasks = before.tasks
    /\ Len(published) = before.published
    /\ IF last.id \notin Ids(before.notifications)
       THEN last.result = FALSE /\ notifications = before.notifications
       ELSE /\ last.result = TRUE
            /\ notifications
                 = [before.notifications
                      EXCEPT ![Found(before.notifications, last.id)].read
                               = TRUE]

\* C16 (step part): marking the notification marked last again returns true
\* and leaves the collections as they are.
C16_MarkedAgain ==
  (/\ last.op = "markNotificationRead"
   /\ last.result = TRUE
   /\ last'.op = "markNotificationRead"
   /\ last'.id = last.id) =>
    /\ last'.result = TRUE
    /\ notifications' = notifications
    /\ tasks' = tasks

\* C16: markNotificationRead(id) returns false and changes nothing when no
\* notification has that id; otherwise it sets that notification's read
\* flag, returns true, changes no other notification, and calling it again
\* returns true with the state unchanged.
C16_MarkNotificationRead == [](C16_Marked) /\ [][C16_MarkedAgain]_vars

\* The seeded notification has been marked twice.
C16_Witness ==
  /\ last.op = "markNotificationRead"
  /\ last.id = "1"
  /\ last.result = TRUE
  /\ before.notifications[1].read = TRUE
  /\ notifications[1].read = TRUE

\* The ids of the tasks deleted so far.
DeletedIds ==
  {published[i].payload.taskDeleted :
     i \in {j \in 1..Len(published) :
              "taskDeleted" \in DOMAIN published[j].payload}}

\* C17: notifications(userId) returns exactly the stored notifications of
\* that user, none of another user's, in the order they were created, and
\* none whose task has been deleted.
C17_NotificationsOfUser ==
  last.op = "notifications" =>
    /\ \A i \in 1..Len(last.result) : last.result[i].userId = last.id
    /\ \A i \in 1..Len(notifications) :
         notifications[i].userId = last.id =>
           \E j \in 1..Len(last.result) : last.result[j] = notifications[i]
    /\ \A i, j \in 1..Len(last.result) :
         i < j =>
           /\ last.result[i].createdAt <= last.result[j].createdAt
           /\ \E k, l \in 1..Len(notifications) :
                /\ k < l
                /\ notifications[k] = last.result[i]
                /\ notifications[l] = last.result[j]
    /\ \A i \in 1..Len(last.result) :
         last.result[i].taskId \notin DeletedIds
    /\ notifications = before.notifications

\* notifications("2") answered nothing once task 2 was deleted.
C17_Witness ==
  /\ last.op = "notifications"
  /\ last.id = "2"
  /\ "2" \in DeletedIds
  /\ last.result = << >>

\* C18: every stored task has a team id, a status of TaskStatus and a
\* priority of TaskPriority.
C18_TasksEnumerated ==
  \A i \in 1..Len(tasks) :
    /\ Get(tasks[i], "teamId") \in Teams
    /\ Get(tasks[i], "status") \in TaskStatus
    /\ Get(tasks[i], "priority") \in TaskPriority

\* The team the task with this id was created under: a seed's, or the one
\* on the task its creation published.
CreationTeam(id) ==
  IF id \in Ids(SeedTasks)
  THEN SeedTasks[CHOOSE i \in 1..Len(SeedTasks) : SeedTasks[i]["id"] = id]
         ["teamId"]
  ELSE LET e == CHOOSE i \in 1..Len(published) :
                  /\ IsTaskCreated(published[i])
                  /\ published[i].payload.taskCreated["id"] = id
       IN published[e].payload.taskCreated["teamId"]

\* C19: a stored task keeps its id, teamId, createdBy and createdAt through
\* every request, and every task-updated and task-deleted event is on the
\* topic of the team the task was created under.
C19_IdentityImmutable ==
  /\ \A i \in 1..Len(before.tasks), j \in 1..Len(tasks) :
       before.tasks[i]["id"] = tasks[j]["id"] =>
         \A f \in {"id", "teamId", "createdBy", "createdAt"} :
           Get(tasks[j], f) = Get(before.tasks[i], f)
  /\ \A i \in 1..Len(tasks) :
       Get(tasks[i], "teamId") = CreationTeam(tasks[i]["id"])
  /\ \A i \in 1..Len(published) :
       /\ "taskUpdated" \in DOMAIN published[i].payload =>
            published[i].topic
              = TaskUpdatedTopic(
                  CreationTeam(published[i].payload.taskUpdated["id"]))
       /\ "taskDeleted" \in DOMAIN published[i].payload =>
            published[i].topic
              = TaskDeletedTopic(
                  CreationTeam(published[i].payload.taskDeleted))

\* A task created under team 2 was updated, and the update was published
\* on team 2's topic.
C19_Witness ==
  /\ Succeeded("updateTask")
  /\ last.id \notin Ids(SeedTasks)
  /\ Get(OldTask, "teamId") = "2"
  /\ Get(last.input, "status") = "IN_PROGRESS"
  /\ published[Len(published)].topic = TaskUpdatedTopic("2")

\* C20: a notification stored before a request is stored after it with the
\* same id, userId, message, type, taskId and createdAt, its read flag
\* changed only from false to true and only by markNotificationRead, unless
\* the request was the deleteTask of its task.
C20_NotificationFrame ==
  \A i \in 1..Len(before.notifications) :
    LET old == before.notifications[i] IN
    IF old["id"] \in Ids(notifications)
    THEN LET new == notifications[CHOOSE j \in 1..Len(notifications) :
                                    notifications[j]["id"] = old["id"]]
         IN /\ [new EXCEPT !.read = old.read] = old
            /\ old.read => new.read
            /\ new.read # old.read =>
                 last.op = "markNotificationRead" /\ last.id = old["id"]
    ELSE IsDeleteOf(last, old.taskId)

\* A notification created by a request is marked read by the next.
C20_Witness ==
  /\ last.op = "markNotificationRead"
  /\ last.result = TRUE
  /\ last.id \notin Ids(SeedNotifications)
  /\ Len(notifications) = 2
  /\ ~before.notifications[2].read
  /\ notifications[2].read

\* The request served last presented a token that login issued.
VerifiedIssued ==
  /\ authLast.op = "verify"
  /\ \E i \in 1..Len(tokens) : tokens[i].token = authLast.token

\* C12: verification of a token that login issued accepts it at any time
\* before its expiry, 24 hours after issuance, and rejects it as
\* Unauthenticated at every time after, whether or not it was accepted
\* earlier.
C12_TokenExpires ==
  VerifiedIssued =>
    /\ hours < authLast.token.iat + ExpiresIn =>
         authLast.result = IdentityClaim(authLast.token)
    /\ hours > authLast.token.iat + ExpiresIn =>
         authLast.result = Unauthenticated

\* A token that verification accepted is rejected after its expiry.
C12_Witness ==
  /\ VerifiedIssued
  /\ hours > authLast.token.iat + ExpiresIn
  /\ authLast.result = Unauthenticated
  /\ \E i \in 1..Len(tokens) :
       tokens[i].token = authLast.token /\ tokens[i].accepted

\* C21: no two stored users have the same email.
C21_UniqueEmails ==
  \A i, j \in 1..Len(users) : users[i].email = users[j].email => i = j

\* C22: login with a documented default account, served while the key can
\* be read, answers 200 with a token.
C22_DefaultLoginSucceeds ==
  (/\ authLast.op = "login"
   /\ authLast.request.email = "admin@taskmanager.com"
   /\ authLast.request.password = "admin123"
   /\ authLast.request.keyReadable) =>
    /\ authLast.status = 200
    /\ "absent" \notin DOMAIN authLast.token

\* The task with this id in the array `stored`.
StoredTask(stored, id) ==
  stored[CHOOSE i \in 1..Len(stored) : stored[i]["id"] = id]

\* C23 (state part): the task a createTask or updateTask has published is
\* the task the collection holds when the mutation has run, and a deleted
\* task's id is published when the collection no longer holds it.
C23_PayloadIsStored ==
  /\ Succeeded("createTask") =>
       LastEvents[Len(LastEvents)].payload.taskCreated
         = StoredTask(tasks, last.result["id"])
  /\ Succeeded("updateTask") =>
       LastEvents[Len(LastEvents)].payload.taskUpdated
         = StoredTask(tasks, last.id)
  /\ IsDeleteOf(last, last.id) =>
       /\ LastEvents = << [topic |-> TaskDeletedTopic(Get(OldTask, "teamId")),
                           payload |-> [taskDeleted |-> last.id]] >>
       /\ last.id \notin Ids(tasks)

\* C23 (step part): when two updateTask calls on the same task are served
\* one after the other, the task holds every field of the second patch and
\* every field the first patch set and the second did not.
C23_NoLostUpdate ==
  (/\ Succeeded("updateTask")
   /\ last'.op = "updateTask"
   /\ ~last'.threw
   /\ last'.id = last.id) =>
    /\ \A f \in DOMAIN last'.input :
         Get(StoredTask(tasks', last.id), f) = last'.input[f]
    /\ \A f \in DOMAIN last.input \ DOMAIN last'.input :
         Get(StoredTask(tasks', last.id), f) = last.input[f]
    /\ \A f \in DOMAIN StoredTask(before.tasks, last.id)
                  \ (DOMAIN last.input \cup DOMAIN last'.input
                       \cup {"updatedAt"}) :
         Get(StoredTask(tasks', last.id), f)
           = Get(StoredTask(before.tasks, last.id), f)

\* C23: mutations are serialized: each runs to completion with its
\* publishes before another is served, two updateTask calls on one task
\* leave the task as the two patches applied in the order served, and every
\* published task payload is the stored task.
C23_Serialized == [](C23_PayloadIsStored) /\ [][C23_NoLostUpdate]_vars

\* Task 1 was given a status by one updateTask and a title by the next.
C23_Witness ==
  /\ Succeeded("updateTask")
  /\ last.id = "1"
  /\ DOMAIN last.input = {"title"}
  /\ tasks[1]["title"] = "Renamed"
  /\ tasks[1]["status"] = "IN_PROGRESS"
  /\ before.tasks[1]["status"] = "IN_PROGRESS"
  /\ before.tasks[1]["title"] = SeedTasks[1]["title"]

\* The request served last is a mutation one of whose publish calls threw.
PublishFailed ==
  /\ publishThrows
  /\ last.op \in {"createTask", "updateTask", "deleteTask"}
  /\ Len(published) > before.published

NoListener(topic) ==
  \A i \in 1..Len(subscriptions) :
    subscriptions[i].topic = topic => ~subscriptions[i].registered

C26_NotificationFirst ==
  ((Succeeded("createTask") \/ Succeeded("updateTask"))
   /\ Len(notifications) > Len(before.notifications)) =>
    /\ Len(LastEvents) = 2
    /\ LastEvents[1].payload
         = [notificationAdded |-> notifications[Len(notifications)]]
    /\ IF last.op = "createTask"
       THEN LastEvents[2].payload = [taskCreated |-> last.result]
       ELSE LastEvents[2].payload = [taskUpdated |-> last.result]

\* An updateTask has published a status notification and then the task.
C26_Witness ==
  /\ Succeeded("updateTask")
  /\ Len(LastEvents) = 2
  /\ IsNotificationAdded(LastEvents[1])
  /\ "taskUpdated" \in DOMAIN LastEvents[2].payload
  /\ LastEvents[1].payload.notificationAdded.type = "TASK_STATUS_CHANGED"

\* The assignee of the task the request served last named, as found.
PriorAssignee == Get(OldTask, "assignedTo")

\* C27: updateTask notifies about a status change exactly when the patch
\* carries a status other than the prior one and the task has an assignee
\* once the patch is applied, and then creates one notification, for that
\* assignee: the patch's when it names one, even if the task had none or
\* another; a patch without a status creates none.
C27_PostPatchAssignee ==
  Succeeded("updateTask") =>
    LET status == Get(last.input, "status")
        assignee == IF "assignedTo" \in DOMAIN last.input
                    THEN last.input["assignedTo"]
                    ELSE PriorAssignee
        added == SubSeq(notifications, Len(before.notifications) + 1,
                        Len(notifications))
    IN IF Truthy(status) /\ status # Get(OldTask, "status")
          /\ Truthy(assignee)
       THEN /\ Len(added) = 1
            /\ added[1].userId = assignee
            /\ added[1].taskId = last.id
            /\ added[1].type = "TASK_STATUS_CHANGED"
            /\ \A i \in 1..Len(before.notifications) :
                 notifications[i] = before.notifications[i]
       ELSE notifications = before.notifications

\* A task created without an assignee was given a status and the assignee
\* 3 by one patch, and user 3 was notified.
C27_Witness ==
  /\ Succeeded("updateTask")
  /\ ~Truthy(PriorAssignee)
  /\ Get(last.input, "status") = "IN_PROGRESS"
  /\ Get(last.input, "assignedTo") = "3"
  /\ Len(notifications) = Len(before.notifications) + 1
  /\ notifications[Len(notifications)].userId = "3"

\* C28: every stored notification names a stored task.
C28_NotificationsOfStoredTasks ==
  \A i \in 1..Len(notifications) :
    Get(notifications[i], "taskId") \in Ids(tasks)

\* A task was created with a notification for its assignee and then
\* deleted: its notification went with it, the seeded one stayed.
C28_Witness ==
  /\ IsDeleteOf(last, last.id)
  /\ last.id \notin Ids(SeedTasks)
  /\ Len(before.notifications) = 2
  /\ before.notifications[2].taskId = last.id
  /\ notifications = SeedNotifications

\* No user id occurs twice in the list.
NoDuplicates(members) ==
  \A i, j \in 1..Len(members) : members[i] = members[j] => i = j

\* The arrays the member operation served last worked on, before and after.
TeamsBefore ==
  IF teamLast.op \in {"postMember", "deleteMember"}
  THEN teamLast.teams ELSE teamLast.storeTeams
TeamsAfter ==
  IF teamLast.op \in {"postMember", "deleteMember"}
  THEN teams ELSE storeTeams

\* The members of the team the operation served last named, in `arr`.
MembersIn(arr) == arr[FindIndex(arr, teamLast.teamId)].members

\* Every team of `arr` other than the named one is as it is in `old`.
OthersKept(arr, old) ==
  /\ Len(arr) = Len(old)
  /\ \A i \in 1..Len(arr) : arr[i].id # teamLast.teamId => arr[i] = old[i]

C30_NewestFive ==
  /\ Len(displayed) <= 5
  /\ \A i \in 1..(Len(displayed) - 1) :
       displayed[i].createdAt >= displayed[i + 1].createdAt
  /\ pageLast.op = "handleLogout" => displayed = << >>

\* A push onto a full list that held a newer server notification: five
\* are shown and the new one is not the first.
C30_Witness ==
  /\ pageLast.op = "pushNotification"
  /\ Len(pageLast.displayed) = 5
  /\ Len(displayed) = 5
  /\ ~IsLocal(displayed[1])
  /\ displayed[2].createdAt = pageClock

====
